---- MODULE Spec2Model ----
(***************************************************************************)
(* MetricsHistory of src/src/app.jsx: the per-hour metrics channels opened *)
(* by load_hour, their "message" and "close" listeners, and the cache      *)
(* this.data that render() reads.                                          *)
(*                                                                         *)
(* JavaScript values are records [t, v]: null, a number, an array, NaN or  *)
(* -Infinity.  Numbers are kept exact as integers in a fixed unit:         *)
(*   - CPU rates (channels 0..2) in msec/s, as delivered;                  *)
(*   - load averages (channel 3) in hundredths (1.2 is 120);               *)
(*   - memory sizes (channels 4, 5) in units of 10^6 bytes (8e9 is 8000);  *)
(*   - the swap page-out rate (channel 6) in pages/s;                      *)
(*   - every value pushed to a series in thousandths (0.03 is 30).         *)
(***************************************************************************)
EXTENDS Integers, Sequences, FiniteSets, TLC

\* ------------------------------------------------------------ constants
MSEC_PER_H == 3600000
interval == 5000
limit == 720
TicksPerMinute == 12

\* ------------------------------------------------------------ bounds
\* Spec: channels ever opened (the constructor opens two)
MaxChannels == 3
\* Spec: channel events delivered (a meta frame, a data sample, a close),
\* over all channels
MaxEvents == 4
\* SpecOneHour: data samples delivered on the channel
MaxHourSamples == 3
\* samples in one data frame
MaxBatch == 2
\* SpecTwoHours: data samples delivered on each of the two channels
MaxPairSamples == 1
\* SpecMetricsHour: free slots at the end of the series MetricsHour is given
MaxScan == 3

\* ------------------------------------------------------------ JS values
Null == [t |-> "null", v |-> 0]
NaN == [t |-> "NaN", v |-> 0]
NegInfinity == [t |-> "-Infinity", v |-> 0]
Num(n) == [t |-> "num", v |-> n]
Arr(s) == [t |-> "arr", v |-> s]

\* ToNumber of the operands of +, / and Math.min: null is 0
ToNumber(x) == IF x.t = "num" THEN x.v ELSE 0

\* Array(n).fill(v)
Fill(n, v) == [k \in 1..n |-> v]

\* ------------------------------------------------------------ inputs
\* Date.now() at construction
Nows == {7200123}

\* batch.timestamp - timestamp of the meta frame, in ms: the first datum is
\* at the requested time, 3 ticks late, or 15 and a half ticks late
GapMs == {0, 15000, 77500}

\* [nice, user, sys, [load15?, load1, load5], physmem, available, pagesout]
SpecSample ==
    <<Num(10), Num(10), Num(10), Arr(<<Num(95), Num(120), Num(110)>>),
      Num(8000), Num(4000), Num(0)>>

\* nothing changed since the last sample
AbsentSample == <<Null, Null, Null, Null, Null, Null, Null>>

\* some channels omitted, the 1-minute load omitted inside its tuple
BusySample ==
    <<Null, Num(700), Num(400), Arr(<<Num(900), Null, Num(1100)>>),
      Null, Num(2000), Num(2000)>>

Samples == {SpecSample, AbsentSample, BusySample}

\* load above the clip of 10, physmem 0, page-out rate exactly 1000
HighLoadSample ==
    <<Num(400), Num(400), Num(400), Arr(<<Num(1000), Num(1500), Num(1200)>>),
      Num(0), Num(0), Num(1000)>>

\* a load tuple with one instance (sample[1] undefined), nothing in use,
\* page-out rate exactly 1
IdleSample ==
    <<Num(0), Null, Null, Arr(<<Num(5)>>), Num(4000), Num(4000), Num(1)>>

\* two cores, one of them busy: 1000 msec of CPU time per second
OneCoreBusySample ==
    <<Num(0), Num(900), Num(100), Null, Null, Null, Num(1001)>>

\* two cores, both busy: 2000 msec of CPU time per second
BothCoresBusySample ==
    <<Num(0), Num(1800), Num(200), Null, Null, Null, Num(2)>>

\* the samples of SpecOneHour
HourSamples ==
    Samples \cup {HighLoadSample, IdleSample, OneCoreBusySample,
                  BothCoresBusySample}

\* ------------------------------------------------------------ state
VARIABLES
    this_state,   \* this.state: [start]
    this_data,    \* this.data: hour timestamp -> the data object of a channel
    channels,     \* every channel load_hour opened, with its closure
    setStates,    \* number of this.setState({}) calls
    dom           \* what render() last returned: hour -> MetricsHour output

vars == <<this_state, this_data, channels, setStates, dom>>

Series == {"use_cpu", "sat_cpu", "use_memory", "sat_memory"}

\* the closure of one load_hour call (timestamp, data, current) and its
\* channel (valid); meta, samples, closed and outcome record what the channel
\* delivered and which branch the close listener took
NewChannel(timestamp) ==
    [ timestamp |-> timestamp,
      data      |-> [k \in {} |-> <<>>],
      current   |-> <<Null, Null, Null, Null, Null, Null, Null>>,
      valid     |-> TRUE,
      meta      |-> <<>>,
      samples   |-> <<>>,
      closed    |-> "no",
      outcome   |-> "none" ]

current_hour(now) == (now \div MSEC_PER_H) * MSEC_PER_H

\* ------------------------------------------------------------ render
\* one iteration of data.sat_memory.forEach((value, i) => ...), i from 0,
\* that leaves prev_val alone unless an event fired
SpikeStep_keeps_prev_val(value, i, prev_val, events) ==
    IF value = Null
    THEN <<prev_val, events>>
    ELSE IF value.t = "num" /\ prev_val.t = "num" /\ value.v - prev_val.v > 250
         THEN <<value, Append(events, i \div TicksPerMinute)>>
         ELSE <<prev_val, events>>

\* one iteration with a threshold of 0.5
SpikeStep_half(value, i, prev_val, events) ==
    IF value = Null
    THEN <<prev_val, events>>
    ELSE IF value.t = "num" /\ prev_val.t = "num" /\ value.v - prev_val.v > 500
         THEN <<value, Append(events, i \div TicksPerMinute)>>
         ELSE <<value, events>>

\* one iteration that compares the value itself, not its rise, with 0.25
SpikeStep_level(value, i, prev_val, events) ==
    IF value = Null
    THEN <<prev_val, events>>
    ELSE IF value.t = "num" /\ value.v > 250
         THEN <<value, Append(events, i \div TicksPerMinute)>>
         ELSE <<value, events>>

\* one iteration of data.sat_memory.forEach((value, i) => ...), i from 0:
\* <<prev_val, events>> after it; an event is its minute
SpikeStep(value, i, prev_val, events) ==
    IF value = Null
    THEN <<prev_val, events>>
    ELSE IF value.t = "num" /\ prev_val.t = "num" /\ value.v - prev_val.v > 250
         THEN <<value, Append(events, i \div TicksPerMinute)>>
         ELSE <<value, events>>

\* the events of the first n slots of sat_memory, with the prev_val reached
RECURSIVE SpikeScan(_, _)
SpikeScan(sat_memory, n) ==
    IF n = 0
    THEN <<Num(0), <<>>>>
    ELSE LET before == SpikeScan(sat_memory, n - 1)
         IN  SpikeStep(sat_memory[n], n - 1, before[1], before[2])

SpikeEvents(sat_memory) == SpikeScan(sat_memory, Len(sat_memory))[2]

\* Number.prototype.toString of a value kept in thousandths: "0.3" for 300
NumberToString(n) ==
    LET a == IF n < 0 THEN 0 - n ELSE n
        d1 == (a % 1000) \div 100
        d2 == (a % 100) \div 10
        d3 == a % 10
    IN  (IF n < 0 THEN "-" ELSE "") \o ToString(a \div 1000)
          \o (IF a % 1000 = 0 THEN ""
              ELSE "." \o ToString(d1)
                     \o (IF d2 = 0 /\ d3 = 0 THEN ""
                         ELSE ToString(d2)
                                \o (IF d3 = 0 THEN "" ELSE ToString(d3))))

\* value.toString() for a value that is not null
ValueToString(value) ==
    IF value.t = "num" THEN NumberToString(value.v) ELSE value.t

\* data.map((value, index) => index + "," + value.toString()).join(" "),
\* over the first n slots
RECURSIVE JoinPoints(_, _)
JoinPoints(data, n) ==
    IF n = 0 THEN ""
    ELSE (IF n = 1 THEN "" ELSE JoinPoints(data, n - 1) \o " ")
           \o ToString(n - 1) \o "," \o ValueToString(data[n])

\* SvgGraph({ category, data }): null for a slice whose first and last slot
\* are null; the polygon points otherwise; null.toString() is a TypeError
SvgGraph(data) ==
    IF data # <<>> /\ data[1] = Null /\ data[Len(data)] = Null
    THEN [t |-> "null", points |-> ""]
    ELSE IF \E j \in 1..Len(data) : data[j] = Null
         THEN [t |-> "TypeError", points |-> ""]
         ELSE [t |-> "svg",
               points |-> "0,0 " \o JoinPoints(data, Len(data))
                            \o " " \o ToString(Len(data) - 1) \o ",0"]

\* a slice that takes ten slots per minute
GraphSlice_ten_per_minute(series, minute) ==
    SubSeq(series, minute * 10 + 1,
           IF minute * 10 + 12 < Len(series) THEN minute * 10 + 12 ELSE Len(series))

\* data[...].slice(dataOffset, dataOffset + 12) with dataOffset = minute * 12
GraphSlice(series, minute) ==
    SubSeq(series, minute * 12 + 1,
           IF minute * 12 + 12 < Len(series) THEN minute * 12 + 12 ELSE Len(series))

\* the minutes 0..59 that have a slot in some series of data
MinutesWithData(data) ==
    {minute \in 0..59 : \E k \in Series : minute * 12 < Len(data[k])}

\* the SvgGraph elements of the minutes with data; every later minute gets
\* BlankGraph, the SvgGraph of an empty slice, which dom does not repeat
Graphs(data) ==
    [minute \in MinutesWithData(data) |->
        [k \in Series |-> SvgGraph(GraphSlice(data[k], minute))]]

BlankGraph == SvgGraph(<<>>)

\* the SvgGraph element of series k at minute of a rendered hour
GraphAt(rendered, minute, k) ==
    IF minute \in DOMAIN rendered.graphs
    THEN rendered.graphs[minute][k]
    ELSE BlankGraph

\* MetricsHour({ startTime, data }): null without data, else the section
\* with its graphs and events; a TypeError in an SvgGraph aborts it
MetricsHour(data) ==
    IF "sat_memory" \notin DOMAIN data
    THEN [section |-> FALSE, events |-> <<>>, graphs |-> <<>>, thrown |-> FALSE]
    ELSE LET graphs == Graphs(data)
         IN  IF \E minute \in DOMAIN graphs, k \in Series :
                    graphs[minute][k].t = "TypeError"
             THEN [section |-> FALSE, events |-> <<>>, graphs |-> <<>>, thrown |-> TRUE]
             ELSE [section |-> TRUE, events |-> SpikeEvents(data.sat_memory),
                   graphs |-> graphs, thrown |-> FALSE]

\* render(): MetricsHour for this.state.start and the hour before, from the
\* cache cache over the channels chans
RenderHours(start, cache, chans) ==
    [hour \in {start, start - MSEC_PER_H} |->
        MetricsHour(IF hour \in DOMAIN cache
                    THEN chans[cache[hour]].data
                    ELSE <<>>)]

Init ==
    \E now \in Nows :
        /\ this_state = [start |-> current_hour(now)]
        /\ this_data = [h \in {} |-> 0]
        /\ channels = << NewChannel(current_hour(now)),
                         NewChannel(current_hour(now) - MSEC_PER_H) >>
        /\ setStates = 0
        /\ dom = RenderHours(current_hour(now), this_data, channels)

\* ------------------------------------------------------------ load_hour
\* the hours render() shows
DisplayedHours == {this_state.start, this_state.start - MSEC_PER_H}

LoadHour(timestamp) ==
    /\ channels' = Append(channels, NewChannel(timestamp))
    /\ UNCHANGED <<this_state, this_data, setStates, dom>>

\* ------------------------------------------------------------ message: meta
nodata_offset(batch_timestamp, timestamp) ==
    (batch_timestamp - timestamp) \div interval

\* a fill that stops at the tick, not at the minute
nodata_minute_offset_per_tick(offset) == offset

nodata_minute_offset(offset) ==
    (offset \div TicksPerMinute) * TicksPerMinute

\* use_cpu.concat(...) returns a new array, which is dropped: use_cpu keeps
\* only the whole-minute null block
MetaFrame(batch_timestamp, timestamp) ==
    LET offset == nodata_offset(batch_timestamp, timestamp)
        minute_offset == nodata_minute_offset(offset)
        use_cpu == Fill(minute_offset, Null)
        dropped == use_cpu \o Fill(offset - minute_offset, Num(0))
    IN  [k \in Series |-> use_cpu]

MetaMessage(i, gap) ==
    /\ channels[i].valid
    /\ channels[i].meta = <<>>
    /\ LET c == channels[i]
           batch_timestamp == c.timestamp + gap
       IN  channels' = [channels EXCEPT
               ![i].data = MetaFrame(batch_timestamp, c.timestamp),
               ![i].meta = <<batch_timestamp>>]
    /\ UNCHANGED <<this_state, this_data, setStates, dom>>

\* ------------------------------------------------------------ message: data
\* a decompression that stores the absent marker
Decompress_no_carry(current_i, sample, i) ==
    IF i = 3
    THEN IF sample.t = "arr" /\ Len(sample.v) >= 2 THEN sample.v[2] ELSE Null
    ELSE sample

\* samples.forEach((sample, i) => ...): the new current[i], i = 0..6
Decompress(current_i, sample, i) ==
    IF i = 3
    THEN \* sample && sample[1] !== undefined && sample[1] !== null
         IF sample.t = "arr" /\ Len(sample.v) >= 2 /\ sample.v[2] # Null
         THEN sample.v[2]
         ELSE current_i
    ELSE IF sample # Null THEN sample ELSE current_i

DecompressSample(current, samples) ==
    [k \in 1..7 |-> Decompress(current[k], samples[k], k - 1)]

\* (current[0] + current[1] + current[2]) / 1000
PushUseCpu(current) ==
    Num(ToNumber(current[1]) + ToNumber(current[2]) + ToNumber(current[3]))

\* a load that is normalized without the clip at 10
PushSatCpu_unclipped(current) ==
    Num(ToNumber(current[4]))

\* Math.min(current[3], 10) / 10, the load in hundredths
PushSatCpu(current) ==
    LET load == ToNumber(current[4])
    IN  Num(IF load < 1000 THEN load ELSE 1000)

\* a push that leaves the slot without data while the memory total is unset
PushUseMemory_nodata_when_unset(current) ==
    IF current[5] = Null THEN Null ELSE Num(0)

\* 1 - (current[5] / current[4]); x / 0 is Infinity and 0 / 0 is NaN
PushUseMemory(current) ==
    LET available == ToNumber(current[6])
        total == ToNumber(current[5])
    IN  IF total = 0
        THEN IF available = 0 THEN NaN ELSE NegInfinity
        ELSE Num(1000 - (available * 1000) \div total)

\* thresholds that include 1000 and 1
PushSatMemory_inclusive(current) ==
    LET pagesout == ToNumber(current[7])
    IN  Num(IF pagesout >= 1000 THEN 1000 ELSE IF pagesout >= 1 THEN 300 ELSE 0)

\* current[6] > 1000 ? 1 : (current[6] > 1 ? 0.3 : 0)
PushSatMemory(current) ==
    LET pagesout == ToNumber(current[7])
    IN  Num(IF pagesout > 1000 THEN 1000 ELSE IF pagesout > 1 THEN 300 ELSE 0)

PushSample(data, current) ==
    [ use_cpu    |-> Append(data.use_cpu, PushUseCpu(current)),
      sat_cpu    |-> Append(data.sat_cpu, PushSatCpu(current)),
      use_memory |-> Append(data.use_memory, PushUseMemory(current)),
      sat_memory |-> Append(data.sat_memory, PushSatMemory(current)) ]

\* a listener that declares current inside itself: every frame starts from
\* the initial nulls
RECURSIVE ProcessBatch_from(_, _, _)
ProcessBatch_from(data, current, batch) ==
    IF batch = <<>>
    THEN <<data, current>>
    ELSE LET next == DecompressSample(current, Head(batch))
         IN  ProcessBatch_from(PushSample(data, next), next, Tail(batch))

ProcessBatch_fresh_current(data, current, batch) ==
    ProcessBatch_from(data, <<Null, Null, Null, Null, Null, Null, Null>>, batch)

\* batch.forEach(samples => ...): <<data, current>> after the batch
RECURSIVE ProcessBatch(_, _, _)
ProcessBatch(data, current, batch) ==
    IF batch = <<>>
    THEN <<data, current>>
    ELSE LET next == DecompressSample(current, Head(batch))
         IN  ProcessBatch(PushSample(data, next), next, Tail(batch))

\* a current that all load_hour calls share
DataMessage_shared_current(i, batch) ==
    /\ channels[i].valid
    /\ channels[i].meta # <<>>
    /\ LET c == channels[i]
           done == ProcessBatch(c.data, c.current, batch)
       IN  channels' = [j \in DOMAIN channels |->
               IF j = i
               THEN [c EXCEPT !.data = done[1], !.current = done[2],
                              !.samples = c.samples \o batch]
               ELSE [channels[j] EXCEPT !.current = done[2]]]
    /\ UNCHANGED <<this_state, this_data, setStates, dom>>

\* the meta message always comes first (line 146)
DataMessage(i, batch) ==
    /\ channels[i].valid
    /\ channels[i].meta # <<>>
    /\ LET c == channels[i]
           done == ProcessBatch(c.data, c.current, batch)
       IN  channels' = [channels EXCEPT
               ![i].data = done[1],
               ![i].current = done[2],
               ![i].samples = c.samples \o batch]
    /\ UNCHANGED <<this_state, this_data, setStates, dom>>

\* ------------------------------------------------------------ close
\* a close listener that does not look at message.problem
CloseOutcome_ignoring_problem(problem, data) ==
    IF "use_memory" \notin DOMAIN data THEN "throw"
    ELSE IF Len(data.use_memory) = 0 THEN "empty"
    ELSE "install"

\* a close listener whose emptiness test throws instead of reporting
CloseOutcome_throwing_when_empty(problem, data) ==
    IF problem THEN "problem"
    ELSE IF "use_memory" \notin DOMAIN data THEN "throw"
    ELSE IF Len(data.use_memory) = 0 THEN "throw"
    ELSE "install"

\* which branch the close listener takes; "throw" is the TypeError of
\* data.use_memory.length when no meta frame has set data.use_memory
CloseOutcome(problem, data) ==
    IF problem THEN "problem"
    ELSE IF "use_memory" \notin DOMAIN data THEN "throw"
    ELSE IF Len(data.use_memory) = 0 THEN "empty"
    ELSE "install"

\* the channel delivers close once and is invalid from then on, so the
\* listener's own metrics.close() does nothing; setState re-renders
CloseEvent(i, problem) ==
    /\ channels[i].valid
    /\ LET c == channels[i]
           outcome == CloseOutcome(problem, c.data)
       IN  /\ channels' = [channels EXCEPT
                  ![i].valid = FALSE,
                  ![i].closed = IF problem THEN "problem" ELSE "ok",
                  ![i].outcome = outcome]
           /\ IF outcome = "install"
              THEN /\ this_data' = (c.timestamp :> i) @@ this_data
                   /\ setStates' = setStates + 1
                   /\ dom' = RenderHours(this_state.start, this_data', channels')
              ELSE UNCHANGED <<this_data, setStates, dom>>
    /\ UNCHANGED this_state

\* ------------------------------------------------------------ cache
\* this.data[hour]: the cached data object, through the reference installed
Lookup(hour) ==
    IF hour \in DOMAIN this_data
    THEN channels[this_data[hour]].data
    ELSE <<>>

HasData(hour) == hour \in DOMAIN this_data

\* ------------------------------------------------------------ behaviours
\* what channel c has delivered: its meta frame, its samples, its close
EventsOf(c) ==
    (IF c.meta # <<>> THEN 1 ELSE 0) + Len(c.samples)
        + (IF c.closed # "no" THEN 1 ELSE 0)

EventsDelivered ==
    LET RECURSIVE Sum(_)
        Sum(n) == IF n = 0 THEN 0 ELSE EventsOf(channels[n]) + Sum(n - 1)
    IN  Sum(Len(channels))

\* Every order of explicit load requests and of the events of all channels.
Next ==
    \/ /\ Len(channels) < MaxChannels
       /\ \E t \in DisplayedHours : LoadHour(t)
    \/ /\ EventsDelivered < MaxEvents
       /\ \E i \in DOMAIN channels, gap \in GapMs : MetaMessage(i, gap)
    \/ \E n \in 1..MaxBatch :
          /\ EventsDelivered + n <= MaxEvents
          /\ \E i \in DOMAIN channels, batch \in [1..n -> Samples] :
                DataMessage(i, batch)
    \/ /\ EventsDelivered < MaxEvents
       /\ \E i \in DOMAIN channels, problem \in BOOLEAN : CloseEvent(i, problem)

Spec == Init /\ [][Next]_vars

\* One subscription in depth: only the channel of the current hour (the
\* first the constructor opens) delivers events; the other one stalls and
\* nobody requests a further load.
NextOneHour ==
    \/ \E gap \in GapMs : MetaMessage(1, gap)
    \/ \E n \in 1..MaxBatch :
          /\ Len(channels[1].samples) + n <= MaxHourSamples
          /\ \E batch \in [1..n -> HourSamples] : DataMessage(1, batch)
    \/ \E problem \in BOOLEAN : CloseEvent(1, problem)

SpecOneHour == Init /\ [][NextOneHour]_vars

\* The two subscriptions of the constructor, every interleaving of their
\* events; nobody requests a further load.
NextTwoHours ==
    \/ \E i \in {1, 2}, gap \in GapMs : MetaMessage(i, gap)
    \/ \E i \in {1, 2}, n \in 1..MaxBatch :
          /\ Len(channels[i].samples) + n <= MaxPairSamples
          /\ \E batch \in [1..n -> Samples] : DataMessage(i, batch)
    \/ \E i \in {1, 2}, problem \in BOOLEAN : CloseEvent(i, problem)

SpecTwoHours == Init /\ [][NextTwoHours]_vars

\* The two subscriptions of the constructor under the channel's contract:
\* the meta frame comes first, so a close without problem follows it, and
\* every channel delivers its close eventually.
ContractClose(i) ==
    \/ CloseEvent(i, TRUE)
    \/ channels[i].meta # <<>> /\ CloseEvent(i, FALSE)

NextContract ==
    \/ \E i \in {1, 2}, gap \in GapMs : MetaMessage(i, gap)
    \/ \E i \in {1, 2}, n \in 1..MaxBatch :
          /\ Len(channels[i].samples) + n <= MaxPairSamples
          /\ \E batch \in [1..n -> Samples] : DataMessage(i, batch)
    \/ \E i \in {1, 2} : ContractClose(i)

SpecContract ==
    /\ Init
    /\ [][NextContract]_vars
    /\ \A i \in {1, 2} : WF_vars(ContractClose(i))

\* MetricsHour as a function of the sat_memory series it is given: the cache
\* holds a series drawn from ScanInputs for the current hour and render()
\* has not run on it yet.
EventScanSeries ==
    <<Num(0), Num(0), Num(300), Num(300), Num(600), Num(200), Num(600)>>

ScanValues == {Null, Num(0), Num(250), Num(300), Num(600), Num(1000)}

\* nothing, a minute without data, or eleven quiet ticks before the free slots
ScanPrefixes == {<<>>, Fill(TicksPerMinute, Null), Fill(TicksPerMinute - 1, Num(0))}

ScanInputs ==
    {EventScanSeries}
        \cup {p \o t : p \in ScanPrefixes,
                       t \in UNION {[1..n -> ScanValues] : n \in 1..MaxScan}}

InitMetricsHour ==
    \E now \in Nows, sat_memory \in ScanInputs :
        /\ this_state = [start |-> current_hour(now)]
        /\ channels = << [NewChannel(current_hour(now)) EXCEPT
                              !.data = [k \in Series |-> sat_memory],
                              !.valid = FALSE,
                              !.meta = <<current_hour(now)>>,
                              !.closed = "ok",
                              !.outcome = "install"] >>
        /\ this_data = (current_hour(now) :> 1)
        /\ setStates = 1
        /\ dom = RenderHours(current_hour(now), <<>>, channels)

Render ==
    /\ dom' = RenderHours(this_state.start, this_data, channels)
    /\ UNCHANGED <<this_state, this_data, channels, setStates>>

NextMetricsHour == Render

SpecMetricsHour == InitMetricsHour /\ [][NextMetricsHour]_vars

\* ------------------------------------------------------------ properties
ChannelsFor(hour) == {i \in DOMAIN channels : channels[i].timestamp = hour}

Loading(hour) == \E i \in ChannelsFor(hour) : channels[i].valid

\* floor((actual_start - requested_start) / 5000)
gap_ticks(c) == (c.meta[1] - c.timestamp) \div 5000

\* floor(gap_ticks / 12) * 12
gap_minutes(c) == (gap_ticks(c) \div 12) * 12

\* what sample delivers for channel ch (1..7): for the load tuple its
\* sub-field at index 1, Null standing for the absent marker
Delivered(sample, ch) ==
    IF ch = 4
    THEN IF sample[4].t = "arr" /\ Len(sample[4].v) >= 2
         THEN sample[4].v[2]
         ELSE Null
    ELSE sample[ch]

\* the most recent real value delivered for ch among samples 1..n
RECURSIVE LastReal(_, _, _)
LastReal(samples, n, ch) ==
    IF n = 0 THEN Null
    ELSE IF Delivered(samples[n], ch) # Null THEN Delivered(samples[n], ch)
    ELSE LastReal(samples, n - 1, ch)

\* the carry-forward vector after samples 1..n, from the delivered values
Decoded(samples, n) == [ch \in 1..7 |-> LastReal(samples, n, ch)]

\* C1: while an hour is loading or complete, a further load_hour request for
\* it opens no channel: the hour has exactly one subscription.
C1_NoSecondSubscription ==
    [][\A hour \in DisplayedHours :
          (Loading(hour) \/ HasData(hour))
              => Cardinality(ChannelsFor(hour))' = Cardinality(ChannelsFor(hour))]_vars

\* C2: every buffer installed in this.data has exactly 720 entries in each
\* of its four series.
C2_InstalledBufferHas720 ==
    \A hour \in DOMAIN this_data :
        \A k \in Series : Len(Lookup(hour)[k]) = limit

\* C3: a close without a problem on a channel that delivered no data sample
\* installs no buffer and signals no re-render, whatever the announced gap.
C3_EmptyLoadInstallsNothing ==
    [][\A i \in DOMAIN channels :
          ( /\ channels[i].valid
            /\ ~channels'[i].valid
            /\ channels'[i].closed = "ok"
            /\ channels[i].samples = <<>> )
              => /\ this_data' = this_data
                 /\ setStates' = setStates]_vars

\* C4: a close carrying a problem leaves the cache, every cached buffer and
\* the component state as they were, however many samples were decoded.
C4_ProblemCloseInstallsNothing ==
    [][\A i \in DOMAIN channels :
          ( /\ channels[i].valid
            /\ ~channels'[i].valid
            /\ channels'[i].closed = "problem" )
              => /\ this_data' = this_data
                 /\ this_state' = this_state
                 /\ setStates' = setStates
                 /\ \A hour \in DisplayedHours : Lookup(hour)' = Lookup(hour)]_vars

C4_Witness ==
    \E i \in DOMAIN channels :
        /\ channels[i].closed = "problem"
        /\ channels[i].samples # <<>>
        /\ ~HasData(channels[i].timestamp)

\* C5: the cache holds a buffer for an hour only if a subscription of that
\* hour has delivered its close without a problem and with data.
C5_CachedOnlyAfterCloseWithData ==
    \A hour \in DOMAIN this_data :
        LET c == channels[this_data[hour]]
        IN  /\ c.timestamp = hour
            /\ c.closed = "ok"
            /\ c.samples # <<>>

\* C6: setState fires exactly once for each hour that became complete (a
\* close without a problem after at least one data sample) and never for an
\* hour whose loads all failed.
Signals(hour) ==
    Cardinality({i \in ChannelsFor(hour) : channels[i].outcome = "install"})

CompletedWithData(hour) ==
    \E i \in ChannelsFor(hour) :
        channels[i].closed = "ok" /\ channels[i].samples # <<>>

C6_OneSignalPerCompletedHour ==
    /\ setStates = Cardinality(DOMAIN this_data)
    /\ \A hour \in DisplayedHours :
          Signals(hour) = IF CompletedWithData(hour) THEN 1 ELSE 0

\* C7: right after the meta frame each series is gap_minutes no-data slots
\* followed by gap_ticks - gap_minutes zero-valued slots.
C7_GapFill ==
    \A i \in DOMAIN channels :
        LET c == channels[i]
        IN  (c.meta # <<>> /\ c.samples = <<>>)
                => \A k \in Series :
                       c.data[k] = Fill(gap_minutes(c), Null)
                                     \o Fill(gap_ticks(c) - gap_minutes(c), Num(0))

\* C8: the k-th data sample is stored at slot gap_ticks + k of all four
\* series; with the meta frame 15000 ms late the sample
\* [10,10,10,[_,1.2,_],8e9,4e9,0] is at tick 3 as 0.03, 0.12, 0.5 and 0.
C8_SampleAtItsTick ==
    \A i \in DOMAIN channels :
        LET c == channels[i]
        IN  c.meta # <<>> =>
              /\ \A n \in 1..Len(c.samples) :
                    LET slot == gap_ticks(c) + n
                        cur == Decoded(c.samples, n)
                    IN  /\ \A k \in Series : slot \in DOMAIN c.data[k]
                        /\ c.data.use_cpu[slot] = PushUseCpu(cur)
                        /\ c.data.sat_cpu[slot] = PushSatCpu(cur)
                        /\ c.data.use_memory[slot] = PushUseMemory(cur)
                        /\ c.data.sat_memory[slot] = PushSatMemory(cur)
              /\ ( /\ c.meta[1] = c.timestamp + 15000
                   /\ c.samples # <<>>
                   /\ c.samples[1] = SpecSample )
                     => /\ \A k \in Series : 4 \in DOMAIN c.data[k]
                        /\ c.data.use_cpu[4] = Num(30)
                        /\ c.data.sat_cpu[4] = Num(120)
                        /\ c.data.use_memory[4] = Num(500)
                        /\ c.data.sat_memory[4] = Num(0)

\* C9: in every series of every buffer the no-data slots are one run at the
\* start whose length is a multiple of 12; none follows a concrete value.
LeadingNullRun(s) ==
    \E n \in 0..Len(s) :
        /\ n % 12 = 0
        /\ \A j \in 1..Len(s) : (s[j] = Null) <=> (j <= n)

C9_NullsOnlyWholeLeadingMinutes ==
    \A i \in DOMAIN channels :
        \A k \in DOMAIN channels[i].data : LeadingNullRun(channels[i].data[k])

C9_Witness ==
    \E hour \in DOMAIN this_data :
        /\ channels[this_data[hour]].meta = <<hour + 77500>>
        /\ \A k \in Series :
              /\ Len(Lookup(hour)[k]) = 14
              /\ Lookup(hour)[k][12] = Null
              /\ Lookup(hour)[k][13] # Null

\* C10: once a channel has had a real value, current holds for it the value
\* of the last sample when that is real and otherwise the most recent real
\* value delivered; an absent marker never unsets it.
C10_CarryForward ==
    \A i \in DOMAIN channels :
        LET c == channels[i]
        IN  \A ch \in 1..7 :
                LastReal(c.samples, Len(c.samples), ch) # Null
                    => c.current[ch] = LastReal(c.samples, Len(c.samples), ch)

C10_Witness ==
    \E i \in DOMAIN channels :
        /\ channels[i].samples = <<SpecSample, BusySample>>
        /\ channels[i].current[1] = Num(10)
        /\ channels[i].current[4] = Num(120)
        /\ channels[i].current[2] = Num(700)

\* the slot of the n-th data sample (n from 1) in the series of channel c
SlotOf(c, n) == gap_minutes(c) + n

\* C11: every value appended to a series is a finite number or no-data,
\* never NaN (nor an infinity), for every sample sequence.
C11_FiniteOrNoData ==
    \A i \in DOMAIN channels :
        \A k \in DOMAIN channels[i].data :
            \A j \in DOMAIN channels[i].data[k] :
                channels[i].data[k][j].t \in {"null", "num"}

\* C12: every concrete cpu_saturation and memory_saturation slot is in
\* [0,1]; cpu_utilization is (nice + user + sys) / 1000, unclipped, so above
\* 1 whenever the three rates sum to more than 1000.
RateSum(cur) == ToNumber(cur[1]) + ToNumber(cur[2]) + ToNumber(cur[3])

C13_SaturationFormulas ==
    \A i \in DOMAIN channels :
        LET c == channels[i]
        IN  c.meta # <<>> =>
              /\ \A n \in 1..Len(c.samples) :
                    LET load == ToNumber(Decoded(c.samples, n)[4])
                        rate == ToNumber(Decoded(c.samples, n)[7])
                    IN  /\ c.data.sat_cpu[SlotOf(c, n)]
                              = Num(IF load <= 1000 THEN load ELSE 1000)
                        /\ rate > 1000
                              => c.data.sat_memory[SlotOf(c, n)] = Num(1000)
                        /\ (rate > 1 /\ rate <= 1000)
                              => c.data.sat_memory[SlotOf(c, n)] = Num(300)
                        /\ rate <= 1
                              => c.data.sat_memory[SlotOf(c, n)] = Num(0)
              /\ \A j \in DOMAIN c.data.sat_memory :
                    c.data.sat_memory[j] \in {Null, Num(0), Num(300), Num(1000)}

C13_Witness ==
    \E i \in DOMAIN channels :
        /\ channels[i].samples = <<HighLoadSample, IdleSample, OneCoreBusySample>>
        /\ channels[i].meta = <<channels[i].timestamp>>
        /\ channels[i].data.sat_memory = <<Num(300), Num(0), Num(1000)>>
        /\ channels[i].data.sat_cpu = <<Num(1000), Num(1000), Num(1000)>>

\* C18: the series depend only on the ordered samples, not on their split
\* into data frames: sample n is in slot n after the null block, as decoded
\* from the samples before it, however the frames were cut.
C18_BatchingIrrelevant ==
    \A i \in DOMAIN channels :
        LET c == channels[i]
        IN  c.meta # <<>> =>
              /\ \A k \in Series :
                    Len(c.data[k]) = gap_minutes(c) + Len(c.samples)
              /\ \A n \in 1..Len(c.samples) :
                    LET cur == Decoded(c.samples, n)
                    IN  /\ c.data.use_cpu[SlotOf(c, n)] = PushUseCpu(cur)
                        /\ c.data.sat_cpu[SlotOf(c, n)] = PushSatCpu(cur)
                        /\ c.data.use_memory[SlotOf(c, n)] = PushUseMemory(cur)
                        /\ c.data.sat_memory[SlotOf(c, n)] = PushSatMemory(cur)

C18_Witness ==
    \E i \in DOMAIN channels :
        /\ channels[i].samples = <<SpecSample, AbsentSample, BusySample>>
        /\ channels[i].meta = <<channels[i].timestamp + 77500>>
        /\ Len(channels[i].data.use_cpu) = 15
        /\ channels[i].data.use_cpu[14] = Num(30)
        /\ channels[i].data.use_memory[15] = Num(750)

\* C20: cpu_utilization is a fraction of the total capacity: with two cores
\* it is at most 0.55 with one core busy and at most 1 with both busy, so no
\* slot exceeds 1.
C20_UtilizationAtMostOne ==
    \A i \in DOMAIN channels :
        LET c == channels[i]
        IN  c.meta # <<>> =>
              /\ \A j \in DOMAIN c.data.use_cpu :
                    c.data.use_cpu[j] # Null => c.data.use_cpu[j].v <= 1000
              /\ \A n \in 1..Len(c.samples) :
                    c.samples[n] = OneCoreBusySample
                        => c.data.use_cpu[SlotOf(c, n)].v <= 550

\* the last concrete value before slot j (from 1) of series, 0 without one
RECURSIVE PrevConcrete(_, _)
PrevConcrete(series, j) ==
    IF j = 1 THEN Num(0)
    ELSE IF series[j - 1] # Null THEN series[j - 1]
    ELSE PrevConcrete(series, j - 1)

Fires(series, j) ==
    /\ series[j] # Null
    /\ series[j].v - PrevConcrete(series, j).v > 250

\* in index order, floor(i / 12) for the indices i = j - 1 that fire
RECURSIVE ExpectedEvents(_, _)
ExpectedEvents(series, n) ==
    IF n = 0 THEN <<>>
    ELSE IF Fires(series, n)
         THEN Append(ExpectedEvents(series, n - 1), (n - 1) \div 12)
         ELSE ExpectedEvents(series, n - 1)

\* C14: the detector emits, in index order, one event at minute floor(i/12)
\* for exactly the concrete slots i that exceed the previous concrete value
\* (0 before the first) by more than 0.25; no-data slots neither emit nor
\* change the previous value, which every concrete slot updates.
C14_DetectorScan ==
    \A hour \in DOMAIN dom :
        dom[hour].section
            => dom[hour].events
                 = ExpectedEvents(Lookup(hour).sat_memory,
                                  Len(Lookup(hour).sat_memory))

C14_Witness ==
    \E hour \in DOMAIN dom :
        /\ dom[hour].section
        /\ Lookup(hour).sat_memory
              = Fill(11, Num(0)) \o <<Num(0), Num(300), Num(1000)>>
        /\ dom[hour].events = <<1, 1>>

\* the ticks (from 0) at which the scan of series pushes an event
FiredTicks(series) ==
    {j - 1 : j \in {k \in 1..Len(series) :
                      Len(SpikeEvents(SubSeq(series, 1, k)))
                          > Len(SpikeEvents(SubSeq(series, 1, k - 1)))}}

Scanned(hour) ==
    /\ dom[hour].section
    /\ Lookup(hour).sat_memory = EventScanSeries

\* C15 as stated: for [0,0,0.3,0.3,0.6,0.2,0.6] events fire exactly at ticks
\* 4 and 6, none at the rise from 0 to 0.3 (tick 2) nor at the fall (tick 5).
C15_EventsAtTicks4And6 ==
    \A hour \in DOMAIN dom :
        Scanned(hour)
            => /\ FiredTicks(EventScanSeries) = {4, 6}
               /\ Len(dom[hour].events) = 2

\* C15 amended: for [0,0,0.3,0.3,0.6,0.2,0.6] events fire exactly at ticks
\* 2, 4 and 6 (the rises 0 to 0.3, 0.3 to 0.6 and 0.2 to 0.6, each of more
\* than 0.25), none at the fall (tick 5) nor at an unchanged value.
C15_EventsAtTicks2And4And6 ==
    \A hour \in DOMAIN dom :
        Scanned(hour)
            => /\ FiredTicks(EventScanSeries) = {2, 4, 6}
               /\ dom[hour].events = <<0, 0, 0>>

C15_Witness ==
    \E hour \in DOMAIN dom : Scanned(hour) /\ Len(dom[hour].events) = 3

\* every load of the hour has closed, none of them with data
FailedHour(hour) ==
    /\ ChannelsFor(hour) # {}
    /\ ~Loading(hour)
    /\ ~CompletedWithData(hour)

\* a step that opens a channel is one explicit load_hour request
OnlyRequestsOpenChannels ==
    Len(channels') # Len(channels)
        => \E t \in DisplayedHours :
              /\ channels' = Append(channels, NewChannel(t))
              /\ UNCHANGED <<this_state, this_data, setStates, dom>>

\* C16: no event opens a subscription (the subscriptions of an hour are the
\* explicit requests made for it), and a failed hour (empty or problem
\* close) has no cache entry and no open subscription until requested again.
C16_NoRetryAndFailedStaysAbsent ==
    [][ /\ OnlyRequestsOpenChannels
        /\ \A hour \in DisplayedHours :
              FailedHour(hour)' => (~HasData(hour)' /\ ~Loading(hour)') ]_vars

\* what channel c holds when its own frames are decoded from scratch
Replay(c) ==
    ProcessBatch(MetaFrame(c.meta[1], c.timestamp),
                 <<Null, Null, Null, Null, Null, Null, Null>>, c.samples)

\* C17: each hour's partial buffer, carry-forward vector and cache entry
\* are functions of that hour's own frames and close, so every interleaving
\* of the two subscriptions ends with the same cache.
C17_HoursIndependent ==
    \A i \in DOMAIN channels :
        LET c == channels[i]
        IN  /\ c.meta # <<>> => (c.data = Replay(c)[1] /\ c.current = Replay(c)[2])
            /\ c.meta = <<>> => (c.data = <<>> /\ c.current = NewChannel(0).current)
            /\ ( /\ c.closed = "ok"
                 /\ c.meta # <<>>
                 /\ Len(Replay(c)[1].use_memory) > 0 )
                   <=> ( /\ c.timestamp \in DOMAIN this_data
                         /\ this_data[c.timestamp] = i
                         /\ Lookup(c.timestamp) = Replay(c)[1] )

C17_Witness ==
    /\ Len(channels) = 2
    /\ DOMAIN this_data = {channels[1].timestamp, channels[2].timestamp}
    /\ channels[1].samples = <<SpecSample>>
    /\ channels[2].samples = <<AbsentSample>>
    /\ Lookup(channels[1].timestamp).use_cpu = <<Num(30)>>
    /\ Lookup(channels[2].timestamp).use_cpu = <<Num(0)>>

\* C19: an hour section is rendered exactly for the displayed hours whose
\* load completed with data; a loading or failed hour renders nothing.
C19_SectionIffCompletedWithData ==
    \A hour \in DisplayedHours :
        dom[hour].section <=> CompletedWithData(hour)

\* C22: after the meta frame of a subscription its four series have the same
\* length, the null prefix plus one slot per sample delivered, and are null
\* at exactly the same indices, also while raw channels are still unset.
C22_SeriesAligned ==
    \A i \in DOMAIN channels :
        LET c == channels[i]
        IN  c.meta # <<>>
              => \A k \in Series :
                    /\ Len(c.data[k]) = gap_minutes(c) + Len(c.samples)
                    /\ \A j \in 1..Len(c.data[k]) :
                          (c.data[k][j] = Null) <=> (c.data.use_cpu[j] = Null)

C22_Witness ==
    \E i \in DOMAIN channels :
        /\ channels[i].meta # <<>>
        /\ gap_minutes(channels[i]) = 12
        /\ channels[i].samples = <<AbsentSample, SpecSample>>
        /\ Len(channels[i].data.sat_memory) = 14
        /\ channels[i].data.use_memory[13] = NaN

\* in index order, the minutes of the concrete slots that are strictly
\* greater than the previous concrete value (0 before the first)
RECURSIVE RiseEvents(_, _)
RiseEvents(series, n) ==
    IF n = 0 THEN <<>>
    ELSE IF series[n] # Null /\ series[n].v > PrevConcrete(series, n).v
         THEN Append(RiseEvents(series, n - 1), (n - 1) \div 12)
         ELSE RiseEvents(series, n - 1)

\* C24: a decoded sat_memory series holds only null, 0, 0.3 and 1, and on
\* it the detector fires exactly at the slots strictly greater than the
\* previous concrete value (0 before the first): every increase emits an
\* event, no equal or decreasing step does.
C24_FiresOnEveryIncrease ==
    \A hour \in DOMAIN this_data :
        LET sat_memory == Lookup(hour).sat_memory
        IN  /\ \A j \in 1..Len(sat_memory) :
                  sat_memory[j] \in {Null, Num(0), Num(300), Num(1000)}
            /\ dom[hour].section
            /\ dom[hour].events = RiseEvents(sat_memory, Len(sat_memory))

C24_Witness ==
    \E hour \in DOMAIN this_data :
        /\ Lookup(hour).sat_memory = <<Num(300), Num(1000), Num(1000)>>
        /\ dom[hour].events = <<0, 0>>

AllNoData(slice) == \A j \in 1..Len(slice) : slice[j] = Null

\* C23: for every installed buffer and every minute 0..59 each 12-slot slice
\* handed to SvgGraph is entirely null or has no null slot, so SvgGraph
\* skips the former and never calls toString on a null.
C23_SlicesAllOrNothing ==
    \A hour \in DOMAIN this_data :
        /\ ~dom[hour].thrown
        /\ dom[hour].section
        /\ \A minute \in 0..59, k \in Series :
              LET slice == GraphSlice(Lookup(hour)[k], minute)
              IN  /\ AllNoData(slice) \/ \A j \in 1..Len(slice) : slice[j] # Null
                  /\ GraphAt(dom[hour], minute, k).t
                        = IF slice # <<>> /\ AllNoData(slice) THEN "null" ELSE "svg"

C23_Witness ==
    \E hour \in DOMAIN this_data :
        /\ Lookup(hour).use_cpu = Fill(12, Null) \o <<Num(30), Num(1110)>>
        /\ GraphAt(dom[hour], 0, "use_cpu").t = "null"
        /\ GraphAt(dom[hour], 1, "use_cpu").points = "0,0 0,0.03 1,1.11 1,0"
        /\ GraphAt(dom[hour], 1, "use_memory").points = "0,0 0,0.5 1,0.75 1,0"
        /\ GraphAt(dom[hour], 2, "use_cpu").points = "0,0  -1,0"

\* the close listener has run to its end for channel i
Settled(i) == channels[i].outcome \in {"install", "empty", "problem"}

\* C21: a subscription stops loading only in a step that is its own close
\* event (nothing else, and no timeout, ends it), and when every channel
\* delivers its close, after the meta frame unless it reports a problem,
\* every requested hour eventually is complete or failed.
C21_LoadingEndsOnlyByCloseAndEventuallyDoes ==
    /\ [][ \A i \in DOMAIN channels :
              (channels[i].valid /\ ~channels'[i].valid)
                  => \E problem \in BOOLEAN : CloseEvent(i, problem) ]_vars
    /\ \A i \in {1, 2} : channels[i].valid ~> (~channels[i].valid /\ Settled(i))

C21_Witness ==
    /\ channels[1].outcome = "install"
    /\ channels[1].samples # <<>>
    /\ channels[2].outcome = "problem"
    /\ ~Loading(channels[1].timestamp)
    /\ ~Loading(channels[2].timestamp)
====
